---------------------------- MODULE Spec2Model ----------------------------
(***************************************************************************)
(* A model of RealDom (src/src/real_dom.rs): the live tree, its listener   *)
(* index, the dirty tracker (NodesDirty) and the resolution driver         *)
(* (update_state).  The storage arena (crate::tree), the change masks      *)
(* (crate::node_ref) and the pass engine (crate::passes) are collaborators *)
(* whose code is not part of real_dom.rs; they are modelled from their     *)
(* described interface.                                                    *)
(***************************************************************************)
EXTENDS Integers, Sequences, FiniteSets, TLC

(***************************************************************************)
(* Bounds of the model.                                                    *)
(***************************************************************************)
\* Node identities are 0..MaxId; 0 is the root.
MaxId == 2
\* Event names are 1..MaxEvents.
MaxEvents == 1
\* Pass lists given to RealDom::new in SpecNew have at most this many passes.
MaxPasses == 2
\* At most this many watchers are registered.
MaxWatchers == 2

NodeIds == 0 .. MaxId
Events == 1 .. MaxEvents
None == -1

\* tree.root(): the identity of the root node.
RootId == 0

(***************************************************************************)
(* Change masks (crate::node_ref::NodeMask): a set of facets.  The facets  *)
(* are the tag, the namespace, the text, the listeners and each attribute  *)
(* name.                                                                   *)
(***************************************************************************)
AttrNames == {"a", "b"}
Facets == {"tag", "namespace", "text", "listeners"} \cup AttrNames

\* NodeMaskBuilder::ALL.build()
MaskAll == Facets
\* NodeMaskBuilder::new().with_listeners().build()
MaskListeners == {"listeners"}
\* NodeMaskBuilder::new().with_text().build()
MaskText == {"text"}
\* NodeMaskBuilder::new().with_tag().build()
MaskTag == {"tag"}
\* NodeMaskBuilder::new().with_namespace().build()
MaskNamespace == {"namespace"}
\* NodeMaskBuilder::new().with_attrs(AttributeMaskBuilder::Some(&[name])).build()
MaskAttr(name) == {name}

\* NodeMask::overlaps
Overlaps(m1, m2) == m1 \cap m2 # {}
\* NodeMask::union
MaskUnion(m1, m2) == m1 \cup m2

(***************************************************************************)
(* Pass descriptors (TypeErasedPass).  Pass identities (TypeId) are        *)
(* positive integers; NodeTypeId is the TypeId of NodeType<V>, which is    *)
(* typed state of every node but no pass.                                  *)
(***************************************************************************)
NodeTypeId == 0

Pass(id, mask, pd, cd, deps) ==
    [this_type_id |-> id, mask |-> mask, parent_dependant |-> pd,
     child_dependant |-> cd, combined_dependancy_type_ids |-> deps,
     dependants |-> {}]

RECURSIVE SeqToSet(_)
SeqToSet(s) == IF s = <<>> THEN {} ELSE {Head(s)} \cup SeqToSet(Tail(s))

\* passes.iter().map(|x| x.this_type_id)
PassIds(ps) == {ps[i].this_type_id : i \in 1 .. Len(ps)}

(***************************************************************************)
(* RealDom::new, lines 88-99: "resolve dependants for each pass".          *)
(* for i in 1..passes.len(): current is passes[i-1] (0-based), that is the *)
(* 1-based position i, for i = 1 .. len-1; every other pass whose identity *)
(* is among current's dependencies gains current as a dependant.           *)
(***************************************************************************)
ResolveOne(ps, c) ==
    [j \in 1 .. Len(ps) |->
        IF j # c /\ ps[j].this_type_id \in ps[c].combined_dependancy_type_ids
        THEN [ps[j] EXCEPT !.dependants = @ \cup {ps[c].this_type_id}]
        ELSE ps[j]]

RECURSIVE ResolveFrom(_, _, _)
ResolveFrom(ps, i, last) ==
    IF i > last THEN ps ELSE ResolveFrom(ResolveOne(ps, i), i + 1, last)

\* The range 1..passes.len() of the loop: its last value is len - 1.
ResolveLast(ps) == Len(ps) - 1

ResolveDependants(ps) == ResolveFrom(ps, 1, ResolveLast(ps))


(***************************************************************************)
(* Finite maps (FxHashMap): functions whose domain is the set of keys.     *)
(***************************************************************************)
EmptyMap == << >>
Put(m, k, v) == [x \in (DOMAIN m) \cup {k} |-> IF x = k THEN v ELSE m[x]]

(***************************************************************************)
(* The storage arena (crate::tree::Tree), from its interface: allocate a   *)
(* node, parent and children of a node, its height (depth), attach a       *)
(* child, insert before/after, detach, replace, existence check.  A tree   *)
(* value is a record: the identities in storage, the parent of each (None  *)
(* for a node with no parent) and the child list of each.                  *)
(***************************************************************************)
RemoveFromSeq(s, x) == SelectSeq(s, LAMBDA y : y # x)

IndexOf(s, x) == CHOOSE i \in 1 .. Len(s) : s[i] = x

InsertAt(s, i, x) == SubSeq(s, 1, i - 1) \o <<x>> \o SubSeq(s, i, Len(s))

\* Tree::new(): the root alone.
TreeNew ==
    [nodes |-> {RootId},
     parent |-> [n \in NodeIds |-> None],
     children |-> [n \in NodeIds |-> << >>]]

\* tree.contains(id)
TreeContains(t, id) == id \in t.nodes

\* tree.parent_id(id)
TreeParentId(t, id) == IF id \in t.nodes THEN t.parent[id] ELSE None

\* tree.children_ids(id); only asked of nodes in storage.
TreeChildrenIds(t, id) == t.children[id]

\* tree.height(id): the depth of a node, None for an identity not in storage.
RECURSIVE Depth(_, _, _)
Depth(t, id, fuel) ==
    IF t.parent[id] = None \/ fuel = 0 THEN 0
    ELSE 1 + Depth(t, t.parent[id], fuel - 1)

TreeHeight(t, id) == IF id \in t.nodes THEN Depth(t, id, MaxId + 1) ELSE None

\* The identity tree.create_node() assigns: identities are dense, an identity
\* freed by a removal is assigned again.
TreeNextId(t) == CHOOSE id \in NodeIds \ t.nodes :
                    \A other \in NodeIds \ t.nodes : id <= other

TreeCreateNode(t, id) ==
    [t EXCEPT !.nodes = @ \cup {id}, !.parent[id] = None, !.children[id] = << >>]

\* A node taken out of its parent's child list.
TreeDetach(t, id) ==
    IF t.parent[id] = None THEN t
    ELSE [t EXCEPT !.children[t.parent[id]] = RemoveFromSeq(@, id),
                   !.parent[id] = None]

\* tree.add_child(parent, new): new becomes the last child of parent.
TreeAddChild(t, parent, new) ==
    LET t1 == TreeDetach(t, new)
    IN  [t1 EXCEPT !.parent[new] = parent,
                   !.children[parent] = Append(@, new)]

\* tree.insert_before(old, new): new becomes the sibling just before old.
TreeInsertBefore(t, old, new) ==
    LET t1 == TreeDetach(t, new)
        p == t1.parent[old]
    IN  [t1 EXCEPT !.parent[new] = p,
                   !.children[p] = InsertAt(@, IndexOf(@, old), new)]

\* tree.insert_after(old, new): new becomes the sibling just after old.
TreeInsertAfter(t, old, new) ==
    LET t1 == TreeDetach(t, new)
        p == t1.parent[old]
    IN  [t1 EXCEPT !.parent[new] = p,
                   !.children[p] = InsertAt(@, IndexOf(@, old) + 1, new)]

\* tree.remove_single(id): the node leaves its parent's child list and storage.
TreeRemoveSingle(t, id) ==
    LET t1 == TreeDetach(t, id)
    IN  [t1 EXCEPT !.nodes = @ \ {id},
                   !.children[id] = << >>,
                   !.parent = [n \in NodeIds |-> IF @[n] = id THEN None ELSE @[n]]]

\* The nodes reachable from the nodes of a set through child lists.
RECURSIVE Reach(_, _, _)
Reach(t, frontier, seen) ==
    IF frontier = {} THEN seen
    ELSE LET nxt == UNION {SeqToSet(t.children[x]) : x \in frontier}
         IN  Reach(t, nxt \ (seen \cup frontier), seen \cup frontier)

\* A node and its descendants.
Subtree(t, id) == Reach(t, {id}, {})

\* Nodes taken out of storage together.
TreeDrop(t, gone) ==
    [nodes |-> t.nodes \ gone,
     parent |-> [n \in NodeIds |->
                    IF n \in gone \/ t.parent[n] \in gone THEN None ELSE t.parent[n]],
     children |-> [n \in NodeIds |->
                    IF n \in gone THEN << >>
                    ELSE SelectSeq(t.children[n], LAMBDA c : c \notin gone)]]

\* tree.replace(old, new): new takes old's place in the child list of old's
\* parent; old and its subtree leave storage.
TreeReplace(t, old, new) ==
    LET p == t.parent[old]
        t1 == TreeDetach(t, new)
        t2 == IF p = None THEN t
              ELSE [t1 EXCEPT
                      !.children[p] = [i \in 1 .. Len(@) |->
                                          IF @[i] = old THEN new ELSE @[i]],
                      !.parent[new] = p,
                      !.parent[old] = None]
    IN  TreeDrop(t2, Subtree(t2, old))


(***************************************************************************)
(* Node content (NodeType<V>): Element and Text carry a set of listened    *)
(* event names, Placeholder carries nothing.  NoData is the content slot   *)
(* of an identity that is not in storage.                                  *)
(***************************************************************************)
NodeTypes ==
    {[kind |-> k, listeners |-> l] : k \in {"Element", "Text"}, l \in SUBSET Events}
        \cup {[kind |-> "Placeholder", listeners |-> {}]}

NoData == [kind |-> "Absent", listeners |-> {}]

\* The root's content in RealDom::new: an Element with no listeners.
RootNode == [kind |-> "Element", listeners |-> {}]

\* The pattern NodeType::Element(..) | NodeType::Text(..) of lines 509, 556, 580.
HasListeners(nt) == nt.kind \in {"Element", "Text"}

(***************************************************************************)
(* State.  tree, nodes_listening and dirty_nodes are the fields of RealDom *)
(* (dirty_nodes is NodesDirty: passes_updated, nodes_updated, passes);     *)
(* node_data is the NodeType<V> slab of the tree.  phase is "args" before  *)
(* RealDom::new has run, "ready" between calls, "panicked" once a call has *)
(* panicked.  last_call records the last public call, its arguments and,   *)
(* for update_state, what it handed to the engine and returned.  marked is  *)
(* a history: the masks marked on each node since the last drain.          *)
(* node_watchers is the list of registered watchers, in registration       *)
(* order; a watcher is known by its name and records what it is told.      *)
(***************************************************************************)
VARIABLES tree, node_data, nodes_listening, dirty_nodes, phase, last_call, marked,
          node_watchers

vars == <<tree, node_data, nodes_listening, dirty_nodes, phase, last_call, marked,
          node_watchers>>

\* after_drain: the call before this one was update_state.  gone: the nodes
\* a remove() was to take out of the tree.  mask: the mask the call marked
\* on node id (empty when it marked none).  result: what a query returned.
\* notes: what the watchers were told during the call, in order.
CallRecord(op, id, arg, after, gone, mask, dirty, touched, masks) ==
    [op |-> op, id |-> id, arg |-> arg, after_drain |-> after, gone |-> gone,
     mask |-> mask, dirty |-> dirty, touched |-> touched, masks |-> masks,
     result |-> << >>, notes |-> << >>]

Call(op, id, arg) ==
    CallRecord(op, id, arg, last_call.op = "update_state", {}, {}, {}, {}, EmptyMap)

CallMark(op, id, arg, mask) ==
    CallRecord(op, id, arg, last_call.op = "update_state", {}, mask, {}, {}, EmptyMap)

CallRemove(id, gone) ==
    CallRecord("remove", id, None, last_call.op = "update_state", gone, {}, {}, {}, EmptyMap)

FirstCall(op, id, mask) ==
    CallRecord(op, id, None, FALSE, {}, mask, {}, {}, EmptyMap)

\* A query and what it returned.
CallResult(op, id, arg, res) == [Call(op, id, arg) EXCEPT !.result = res]

(***************************************************************************)
(* NodesDirty (lines 16-54).                                               *)
(***************************************************************************)
\* passes_updated.entry(node_id).or_default()
EntryOrDefault(pu, id) == IF id \in DOMAIN pu THEN pu[id] ELSE {}

\* The passes whose interest mask overlaps a mask (line 27).
PassesOverlapping(ps, mask) ==
    {ps[i].this_type_id : i \in {j \in 1 .. Len(ps) : Overlaps(ps[j].mask, mask)}}

\* A mark that replaces the pending mask instead of joining it.
MarkMaskOverwrite(nu, id, mask) == Put(nu, id, mask)

\* nodes_updated after mark_dirty (lines 29-34): union into the mask there is,
\* or the mask itself for a node with none.
MarkMask(nu, id, mask) ==
    IF id \in DOMAIN nu THEN Put(nu, id, MaskUnion(nu[id], mask))
    ELSE Put(nu, id, mask)

\* A mark that leaves out the overlap test: every pass becomes pending.
MarkPassesUnfiltered(pu, ps, id, mask) ==
    Put(pu, id, EntryOrDefault(pu, id) \cup PassIds(ps))

\* passes_updated after mark_dirty (lines 24-28).
MarkPasses(pu, ps, id, mask) ==
    Put(pu, id, EntryOrDefault(pu, id) \cup PassesOverlapping(ps, mask))

\* NodesDirty::mark_dirty
mark_dirty(d, id, mask) ==
    [d EXCEPT !.passes_updated = MarkPasses(@, d.passes, id, mask),
              !.nodes_updated = MarkMask(@, id, mask)]

ParentDependant(ps) ==
    {ps[i].this_type_id : i \in {j \in 1 .. Len(ps) : ps[j].parent_dependant}}

ChildDependant(ps) ==
    {ps[i].this_type_id : i \in {j \in 1 .. Len(ps) : ps[j].child_dependant}}

\* A mark that reads the child_dependant flag where parent_dependant is meant.
mark_parent_by_child_flag(d, id) ==
    [d EXCEPT !.passes_updated =
        Put(@, id, EntryOrDefault(@, id) \cup ChildDependant(d.passes))]

\* NodesDirty::mark_parent_added_or_removed
mark_parent_added_or_removed(d, id) ==
    [d EXCEPT !.passes_updated =
        Put(@, id, EntryOrDefault(@, id) \cup ParentDependant(d.passes))]

\* NodesDirty::mark_child_changed
mark_child_changed(d, id) ==
    [d EXCEPT !.passes_updated =
        Put(@, id, EntryOrDefault(@, id) \cup ChildDependant(d.passes))]

(***************************************************************************)
(* RealDom::new (lines 73-119).                                            *)
(***************************************************************************)
\* NodesDirty before construction: only the pass list is there.
DirtyArgs(ps) == [passes_updated |-> EmptyMap, nodes_updated |-> EmptyMap, passes |-> ps]

\* The root is pending for every pass, with every facet changed (lines 101-106).
DirtyNew(ps) ==
    [passes_updated |-> Put(EmptyMap, RootId, PassIds(ps)),
     nodes_updated |-> Put(EmptyMap, RootId, MaskAll),
     passes |-> ResolveDependants(ps)]

NodeDataNew == [n \in NodeIds |-> IF n = RootId THEN RootNode ELSE NoData]

New ==
    /\ phase = "args"
    /\ tree' = TreeNew
    /\ node_data' = NodeDataNew
    /\ nodes_listening' = EmptyMap
    /\ dirty_nodes' = DirtyNew(dirty_nodes.passes)
    /\ phase' = "ready"
    /\ node_watchers' = << >>
    /\ last_call' = FirstCall("new", RootId, MaskAll)

\* The state before RealDom::new is called with a pass list.
InitArgs(ps) ==
    /\ tree = [nodes |-> {}, parent |-> [n \in NodeIds |-> None],
               children |-> [n \in NodeIds |-> << >>]]
    /\ node_data = [n \in NodeIds |-> NoData]
    /\ nodes_listening = EmptyMap
    /\ dirty_nodes = DirtyArgs(ps)
    /\ phase = "args"
    /\ node_watchers = << >>
    /\ last_call = FirstCall("none", None, {})

\* The state after RealDom::new(ps).
InitNew(ps) ==
    /\ tree = TreeNew
    /\ node_data = NodeDataNew
    /\ nodes_listening = EmptyMap
    /\ dirty_nodes = DirtyNew(ps)
    /\ phase = "ready"
    /\ node_watchers = << >>
    /\ last_call = FirstCall("new", RootId, MaskAll)

(***************************************************************************)
(* The pass lists RealDom::new is given in SpecNew: up to MaxPasses passes *)
(* of distinct identities 1..MaxPasses, each declaring any set of          *)
(* dependencies among 1..MaxPasses+1 (MaxPasses+1 is never registered).    *)
(***************************************************************************)
PassTypeIds == 1 .. MaxPasses
DepTypeIds == 1 .. (MaxPasses + 1)

IdLists == {s \in UNION {[1 .. n -> PassTypeIds] : n \in 0 .. MaxPasses} :
               \A i, j \in 1 .. Len(s) : i # j => s[i] # s[j]}

PassLists ==
    UNION {{[i \in 1 .. Len(ids) |-> Pass(ids[i], {}, FALSE, FALSE, deps[i])] :
                deps \in [1 .. Len(ids) -> SUBSET DepTypeIds]} : ids \in IdLists}


(***************************************************************************)
(* Edit calls.  Every call is made on a handle obtained from get_mut, so   *)
(* on an identity in storage, and identities passed as arguments are in    *)
(* storage too.  A call that panics (an unwrap of None, or a recursion     *)
(* that never returns) ends the run: phase becomes "panicked" and the      *)
(* state is left as it was when the call began.                            *)
(***************************************************************************)
Ready == phase = "ready"

\* The fields of RealDom an edit call works on, with the list of watchers and
\* the log of what happened during the call.
DomOf(t, nd, nl, d) ==
    [tree |-> t, node_data |-> nd, nodes_listening |-> nl, dirty_nodes |-> d,
     panicked |-> FALSE, watchers |-> node_watchers, log |-> << >>]

\* What a watcher handed NodeMut::new(id, dom) can see of the node: whether it
\* is in the tree, its parent, its content slot, whether the listener index
\* holds it and its pending passes.
Note(s, kind, id, w) ==
    [kind |-> kind, node |-> id, watcher |-> w,
     present |-> TreeContains(s.tree, id),
     parent |-> TreeParentId(s.tree, id),
     stored |-> s.node_data[id] # NoData,
     indexed |-> \E e \in DOMAIN s.nodes_listening : id \in s.nodes_listening[e],
     pending |-> EntryOrDefault(s.dirty_nodes.passes_updated, id)]

\* A dispatch that goes through the watchers last to first.
NotifyAllReversed(s, kind, id) ==
    [s EXCEPT !.log = @ \o [i \in 1 .. Len(s.watchers) |->
                               Note(s, kind, id, s.watchers[Len(s.watchers) + 1 - i])]]

\* for watcher in &*watchers.read().unwrap() { watcher.on_node_..(..) }
\* (lines 130-133, 593-596, 600-603): every watcher, in the order of the list.
NotifyAll(s, kind, id) ==
    [s EXCEPT !.log = @ \o [i \in 1 .. Len(s.watchers) |-> Note(s, kind, id, s.watchers[i])]]

\* The log also tells when a node has left storage.
LogDetached(s, id) == [s EXCEPT !.log = Append(@, Note(s, "detached", id, None))]

\* The notifications of one node, on the fields as they are at that point.
Notes(t, nd, nl, d, kind, id) == NotifyAll(DomOf(t, nd, nl, d), kind, id).log

CallNotes(call, notes) == [call EXCEPT !.notes = notes]

\* RealDom::add_node_watcher (lines 278-280)
AddNodeWatcher ==
    /\ Ready
    /\ Len(node_watchers) < MaxWatchers
    /\ node_watchers' = Append(node_watchers, Len(node_watchers) + 1)
    /\ last_call' = Call("add_node_watcher", None, Len(node_watchers) + 1)
    /\ UNCHANGED <<tree, node_data, nodes_listening, dirty_nodes, phase>>

Panic(op, id, arg) ==
    /\ phase' = "panicked"
    /\ last_call' = Call(op, id, arg)
    /\ UNCHANGED <<tree, node_data, nodes_listening, dirty_nodes, node_watchers>>

\* RealDom::create_node (lines 121-135)
CreateNodeDirty(d, id) ==
    [d EXCEPT !.passes_updated = Put(@, id, EntryOrDefault(@, id) \cup PassIds(d.passes))]

CreateNode(nt) ==
    /\ Ready
    /\ NodeIds \ tree.nodes # {}
    /\ LET id == TreeNextId(tree)
       IN  /\ tree' = TreeCreateNode(tree, id)
           /\ dirty_nodes' = CreateNodeDirty(dirty_nodes, id)
           /\ node_data' = [node_data EXCEPT ![id] = nt]
           /\ last_call' = CallNotes(Call("create_node", id, None),
                                    Notes(tree', node_data', nodes_listening,
                                          dirty_nodes', "added", id))
    /\ UNCHANGED <<nodes_listening, phase, node_watchers>>

\* NodeMut::add_child (lines 477-482)
AddChild(id, child) ==
    /\ Ready
    /\ id \in tree.nodes /\ child \in tree.nodes
    /\ dirty_nodes' = mark_parent_added_or_removed(mark_child_changed(dirty_nodes, id), child)
    /\ tree' = TreeAddChild(tree, id, child)
    /\ last_call' = CallNotes(Call("add_child", id, child),
                             Notes(tree', node_data, nodes_listening, dirty_nodes',
                                   "moved", child))
    /\ UNCHANGED <<node_data, nodes_listening, phase, node_watchers>>

\* The marks of insert_after and insert_before (lines 487-490, 498-501).
InsertDirty(d, t, id, old) ==
    IF TreeParentId(t, old) # None
    THEN mark_parent_added_or_removed(mark_child_changed(d, TreeParentId(t, old)), id)
    ELSE d

\* NodeMut::insert_after (lines 485-493); the tree positions a node beside a
\* node that has a parent.
InsertAfter(id, old) ==
    /\ Ready
    /\ id \in tree.nodes /\ old \in tree.nodes /\ id # old
    /\ TreeParentId(tree, old) # None
    /\ dirty_nodes' = InsertDirty(dirty_nodes, tree, id, old)
    /\ tree' = TreeInsertAfter(tree, old, id)
    /\ last_call' = CallNotes(Call("insert_after", id, old),
                             Notes(tree', node_data, nodes_listening, dirty_nodes',
                                   "moved", id))
    /\ UNCHANGED <<node_data, nodes_listening, phase, node_watchers>>

\* NodeMut::insert_before (lines 496-504)
InsertBefore(id, old) ==
    /\ Ready
    /\ id \in tree.nodes /\ old \in tree.nodes /\ id # old
    /\ TreeParentId(tree, old) # None
    /\ dirty_nodes' = InsertDirty(dirty_nodes, tree, id, old)
    /\ tree' = TreeInsertBefore(tree, old, id)
    /\ last_call' = CallNotes(Call("insert_before", id, old),
                             Notes(tree', node_data, nodes_listening, dirty_nodes',
                                   "moved", id))
    /\ UNCHANGED <<node_data, nodes_listening, phase, node_watchers>>

(***************************************************************************)
(* NodeMut::remove (lines 507-535), on a record of the fields it changes.  *)
(* stack holds the nodes whose remove() is running: a child that is one of *)
(* them would recurse without end.                                         *)
(***************************************************************************)
\* Lines 509-521: the node's listeners are taken and the node leaves the
\* index entry of each; the entry of each must exist (unwrap).
PurgeListeners(s, id) ==
    LET nt == s.node_data[id]
    IN  IF ~HasListeners(nt) THEN s
        ELSE IF \E e \in nt.listeners : e \notin DOMAIN s.nodes_listening
        THEN [s EXCEPT !.panicked = TRUE]
        ELSE [s EXCEPT
                !.node_data[id].listeners = {},
                !.nodes_listening =
                    [e \in DOMAIN @ |-> IF e \in nt.listeners THEN @[e] \ {id} ELSE @[e]]]

\* Lines 523-527
RemoveMarkParent(s, id) ==
    IF TreeParentId(s.tree, id) # None
    THEN [s EXCEPT !.dirty_nodes = mark_child_changed(@, TreeParentId(s.tree, id))]
    ELSE s

\* Line 534, and the node's content slot freed with it.
RemoveSingle(s, id) ==
    LogDetached([s EXCEPT !.tree = TreeRemoveSingle(@, id), !.node_data[id] = NoData], id)

RECURSIVE RemoveRec(_, _, _), RemoveChildren(_, _, _)
RemoveRec(s, id, stack) ==
    IF s.panicked THEN s
    ELSE IF id \in stack \/ ~TreeContains(s.tree, id) THEN [s EXCEPT !.panicked = TRUE]
    ELSE LET s1 == PurgeListeners(s, id)
             s2 == IF s1.panicked THEN s1
                   ELSE RemoveMarkParent(NotifyAll(s1, "removed", id), id)
             s3 == RemoveChildren(s2, TreeChildrenIds(s2.tree, id), stack \cup {id})
         IN  IF s3.panicked THEN s3 ELSE RemoveSingle(s3, id)

\* Lines 528-533: remove() on each child of the list as it was.
RemoveChildren(s, children, stack) ==
    IF s.panicked \/ children = << >> THEN s
    ELSE RemoveChildren(RemoveRec(s, Head(children), stack), Tail(children), stack)

Remove(id) ==
    /\ Ready
    /\ id \in tree.nodes
    /\ LET s == RemoveRec(DomOf(tree, node_data, nodes_listening, dirty_nodes), id, {})
       IN  IF s.panicked THEN Panic("remove", id, None)
           ELSE /\ tree' = s.tree
                /\ node_data' = s.node_data
                /\ nodes_listening' = s.nodes_listening
                /\ dirty_nodes' = s.dirty_nodes
                /\ last_call' = CallNotes(CallRemove(id, Subtree(tree, id)), s.log)
                /\ UNCHANGED <<phase, node_watchers>>

\* The marks of replace (lines 540-547).
ReplaceDirty(d, t, id, new) ==
    IF TreeParentId(t, id) # None
    THEN mark_parent_added_or_removed(mark_child_changed(d, TreeParentId(t, id)), new)
    ELSE d

\* NodeMut::replace (lines 538-550); the content slots of the nodes that leave
\* storage are freed.
Replace(id, new) ==
    /\ Ready
    /\ id \in tree.nodes /\ new \in tree.nodes /\ id # new
    /\ dirty_nodes' = ReplaceDirty(dirty_nodes, tree, id, new)
    /\ tree' = TreeReplace(tree, id, new)
    /\ node_data' = [n \in NodeIds |-> IF n \in tree'.nodes THEN node_data[n] ELSE NoData]
    /\ last_call' = CallNotes(Call("replace", id, new),
                             Notes(tree, node_data, nodes_listening, dirty_nodes,
                                   "removed", id))
    /\ UNCHANGED <<nodes_listening, phase, node_watchers>>

\* The index after add_event_listener (lines 563-572).
ListenIndexAdd(nl, event, id) ==
    IF event \in DOMAIN nl THEN Put(nl, event, nl[event] \cup {id})
    ELSE Put(nl, event, {id})

\* NodeMut::add_event_listener (lines 553-574)
AddEventListener(id, event) ==
    /\ Ready
    /\ id \in tree.nodes
    /\ IF HasListeners(node_data[id])
       THEN /\ dirty_nodes' = mark_dirty(dirty_nodes, id, MaskListeners)
            /\ node_data' = [node_data EXCEPT ![id].listeners = @ \cup {event}]
            /\ nodes_listening' = ListenIndexAdd(nodes_listening, event, id)
            /\ last_call' = CallMark("add_event_listener", id, event, MaskListeners)
       ELSE /\ last_call' = Call("add_event_listener", id, event)
            /\ UNCHANGED <<dirty_nodes, node_data, nodes_listening>>
    /\ UNCHANGED <<tree, phase, node_watchers>>

\* NodeMut::remove_event_listener (lines 577-590); the index entry of the event
\* must exist (unwrap, line 588).
RemoveEventListener(id, event) ==
    /\ Ready
    /\ id \in tree.nodes
    /\ IF HasListeners(node_data[id])
       THEN IF event \notin DOMAIN nodes_listening
            THEN Panic("remove_event_listener", id, event)
            ELSE /\ dirty_nodes' = mark_dirty(dirty_nodes, id, MaskListeners)
                 /\ node_data' = [node_data EXCEPT ![id].listeners = @ \ {event}]
                 /\ nodes_listening' = Put(nodes_listening, event, nodes_listening[event] \ {id})
                 /\ last_call' = CallMark("remove_event_listener", id, event, MaskListeners)
                 /\ UNCHANGED <<tree, phase, node_watchers>>
       ELSE /\ last_call' = Call("remove_event_listener", id, event)
            /\ UNCHANGED <<tree, node_data, nodes_listening, dirty_nodes, phase, node_watchers>>

\* NodeMut::set_type (lines 627-632)
SetType(id, new) ==
    /\ Ready
    /\ id \in tree.nodes
    /\ node_data' = [node_data EXCEPT ![id] = new]
    /\ dirty_nodes' = mark_dirty(dirty_nodes, id, MaskAll)
    /\ last_call' = CallMark("set_type", id, None, MaskAll)
    /\ UNCHANGED <<tree, nodes_listening, phase, node_watchers>>


\* The mark of NodeMut::get_mut<T> and NodeMut::insert<T> (lines 431-436,
\* 443-448): T joins the node's pending set, whatever type T is.
TypedMark(d, id, ty) ==
    [d EXCEPT !.passes_updated = Put(@, id, EntryOrDefault(@, id) \cup {ty})]

\* The types T a caller may name: the registered passes and NodeType<V>.
TypeIds == PassIds(dirty_nodes.passes) \cup {NodeTypeId}

\* NodeMut::get_mut<T> (lines 429-438)
NodeGetMut(id, ty) ==
    /\ Ready
    /\ id \in tree.nodes
    /\ dirty_nodes' = TypedMark(dirty_nodes, id, ty)
    /\ last_call' = Call("get_mut", id, ty)
    /\ UNCHANGED <<tree, node_data, nodes_listening, phase, node_watchers>>

\* NodeMut::insert<T> (lines 441-450); the values of typed state are not part
\* of the model.
NodeInsert(id, ty) ==
    /\ Ready
    /\ id \in tree.nodes
    /\ dirty_nodes' = TypedMark(dirty_nodes, id, ty)
    /\ last_call' = Call("insert", id, ty)
    /\ UNCHANGED <<tree, node_data, nodes_listening, phase, node_watchers>>

\* A content edit that marks one mask and changes no modelled field.
ContentEdit(op, id, arg, mask) ==
    /\ dirty_nodes' = mark_dirty(dirty_nodes, id, mask)
    /\ last_call' = CallMark(op, id, arg, mask)
    /\ UNCHANGED <<tree, node_data, nodes_listening, phase, node_watchers>>

\* NodeMut::node_type_mut on a Text node (lines 618-622)
TextMut(id) ==
    /\ Ready
    /\ id \in tree.nodes /\ node_data[id].kind = "Text"
    /\ ContentEdit("text_mut", id, None, MaskText)

\* ElementNodeMut::tag_mut (lines 652-656)
TagMut(id) ==
    /\ Ready
    /\ id \in tree.nodes /\ node_data[id].kind = "Element"
    /\ ContentEdit("tag_mut", id, None, MaskTag)

\* ElementNodeMut::namespace_mut (lines 662-666)
NamespaceMut(id) ==
    /\ Ready
    /\ id \in tree.nodes /\ node_data[id].kind = "Element"
    /\ ContentEdit("namespace_mut", id, None, MaskNamespace)

\* ElementNodeMut::set_attribute (lines 672-684)
SetAttribute(id, name) ==
    /\ Ready
    /\ id \in tree.nodes /\ node_data[id].kind = "Element"
    /\ ContentEdit("set_attribute", id, name, MaskAttr(name))

\* ElementNodeMut::remove_attributes (lines 686-697)
RemoveAttributes(id, name) ==
    /\ Ready
    /\ id \in tree.nodes /\ node_data[id].kind = "Element"
    /\ ContentEdit("remove_attributes", id, name, MaskAttr(name))

(***************************************************************************)
(* RealDom::get and RealDom::get_mut (lines 179-185).  An Option is a list *)
(* of at most one element: the handle is known by the identity it names.   *)
(***************************************************************************)
\* A lookup that hands out a handle without asking the tree.
LookupUnchecked(t, id) == <<id>>

\* self.tree.contains(id).then_some(..) / .then(..)
Lookup(t, id) == IF TreeContains(t, id) THEN <<id>> ELSE << >>

\* RealDom::get (lines 179-181)
Get(id) ==
    /\ Ready
    /\ last_call' = CallResult("get", id, None, Lookup(tree, id))
    /\ UNCHANGED <<tree, node_data, nodes_listening, dirty_nodes, phase, node_watchers>>

\* RealDom::get_mut (lines 183-185)
GetMut(id) ==
    /\ Ready
    /\ last_call' = CallResult("get_mut_handle", id, None, Lookup(tree, id))
    /\ UNCHANGED <<tree, node_data, nodes_listening, dirty_nodes, phase, node_watchers>>

(***************************************************************************)
(* RealDom::clone_node (lines 166-177), on a record of the fields it       *)
(* changes; map is the clone made of each node so far.                     *)
(***************************************************************************)
\* create_node within clone_node (line 169): the content is the original's.
CloneCreate(s, node_id, new_id) ==
    NotifyAll([s EXCEPT !.tree = TreeCreateNode(@, new_id),
                        !.dirty_nodes = CreateNodeDirty(@, new_id),
                        !.node_data[new_id] = s.node_data[node_id],
                        !.map = Put(@, node_id, new_id)],
              "added", new_id)

\* Line 174: get_mut(new_id).unwrap().add_child(child_id)
CloneAttach(s, new_id, child_id) ==
    NotifyAll([s EXCEPT !.dirty_nodes =
                            mark_parent_added_or_removed(mark_child_changed(@, new_id),
                                                         child_id),
                        !.tree = TreeAddChild(@, new_id, child_id)],
              "moved", child_id)

RECURSIVE CloneRec(_, _), CloneChildren(_, _, _)
CloneRec(s, node_id) ==
    LET new_id == TreeNextId(s.tree)
        s1 == CloneCreate(s, node_id, new_id)
    IN  CloneChildren(s1, TreeChildrenIds(s1.tree, node_id), new_id)

\* Lines 171-175: each child of the list as it was is cloned, and its clone
\* attached to the new node.
CloneChildren(s, children, new_id) ==
    IF children = << >> THEN s
    ELSE LET s1 == CloneRec(s, Head(children))
         IN  CloneChildren(CloneAttach(s1, new_id, s1.map[Head(children)]),
                           Tail(children), new_id)

\* The tree has room for the clones: identities are bounded in the model.
CloneFits(t, node_id) ==
    Cardinality(Subtree(t, node_id)) <= Cardinality(NodeIds \ t.nodes)

CloneNode(node_id) ==
    /\ Ready
    /\ node_id \in tree.nodes
    /\ CloneFits(tree, node_id)
    /\ LET s0 == [tree |-> tree, node_data |-> node_data, dirty_nodes |-> dirty_nodes,
                  nodes_listening |-> nodes_listening, watchers |-> node_watchers,
                  log |-> << >>, map |-> EmptyMap]
           s == CloneRec(s0, node_id)
       IN  /\ tree' = s.tree
           /\ node_data' = s.node_data
           /\ dirty_nodes' = s.dirty_nodes
           /\ last_call' = CallNotes(CallResult("clone_node", node_id, s.map[node_id], s.map),
                                    s.log)
    /\ UNCHANGED <<nodes_listening, phase, node_watchers>>

(***************************************************************************)
(* RealDom::get_listening_sorted (lines 138-153).  The index entry is a    *)
(* hash set: it is iterated in some order, then sorted (a stable sort) by  *)
(* height, highest first; nodes of equal height come in any order.         *)
(***************************************************************************)
\* The orders in which a set can be iterated.
Orders(S) ==
    {q \in [1 .. Cardinality(S) -> S] : \A i, j \in 1 .. Cardinality(S) : i # j => q[i] # q[j]}

\* Line 142: tree.height(id).unwrap() panics on an identity not in storage.
ListeningPanics(nl, t, event) ==
    event \in DOMAIN nl /\ \E id \in nl[event] : TreeHeight(t, id) = None

\* The lists the query can return.
ListeningSorted(nl, t, event) ==
    IF event \notin DOMAIN nl THEN {<< >>}
    ELSE {q \in Orders(nl[event]) :
            \A i \in 1 .. Len(q) - 1 : TreeHeight(t, q[i]) >= TreeHeight(t, q[i + 1])}

GetListeningSorted(event) ==
    /\ Ready
    /\ IF ListeningPanics(nodes_listening, tree, event)
       THEN Panic("get_listening_sorted", None, event)
       ELSE /\ \E q \in ListeningSorted(nodes_listening, tree, event) :
                  last_call' = CallResult("get_listening_sorted", None, event, q)
            /\ UNCHANGED <<tree, node_data, nodes_listening, dirty_nodes, phase, node_watchers>>

(***************************************************************************)
(* RealDom::update_state (lines 193-215).                                  *)
(***************************************************************************)
\* A drain that reads the pending pass sets and leaves them in place.
KeepPassesUpdated(d) == d.passes_updated

\* std::mem::take(&mut self.dirty_nodes.passes_updated): what is left behind.
TakePassesUpdated(d) == EmptyMap

\* A drain that returns the pending masks and leaves them in place.
KeepNodesUpdated(d) == d.nodes_updated

\* std::mem::take(&mut self.dirty_nodes.nodes_updated): what is left behind.
TakeNodesUpdated(d) == EmptyMap

\* A height lookup that does not tell an absent node from a present one.
DrainHeightUnchecked(t, id) == Depth(t, id, MaxId + 1)

\* The height update_state looks up for a pending node (line 204).
DrainHeight(t, id) == TreeHeight(t, id)

\* Lines 202-209: one insert(pass, node, height) for every pending pass of
\* every pending node that has a height.
DirtyNodeStates(pu, t) ==
    UNION {{<<pass, n, DrainHeight(t, n)>> : pass \in pu[n]} :
              n \in {m \in DOMAIN pu : DrainHeight(t, m) # None}}

\* resolve_passes: the nodes the engine reports as changed; it runs nothing
\* for an empty dirty set.
ResolvePasses(dirty, t) == IF dirty = {} THEN {{}} ELSE SUBSET t.nodes

UpdateState ==
    /\ Ready
    /\ LET dirty == DirtyNodeStates(dirty_nodes.passes_updated, tree)
       IN  \E touched \in ResolvePasses(dirty, tree) :
               last_call' = CallRecord("update_state", None, None,
                                       last_call.op = "update_state", {}, {},
                                       dirty, touched, dirty_nodes.nodes_updated)
    /\ dirty_nodes' = [dirty_nodes EXCEPT
                          !.passes_updated = TakePassesUpdated(dirty_nodes),
                          !.nodes_updated = TakeNodesUpdated(dirty_nodes)]
    /\ UNCHANGED <<tree, node_data, nodes_listening, phase, node_watchers>>


(***************************************************************************)
(* Specifications.                                                         *)
(***************************************************************************)
\* The passes of the edit specifications: pass 1 reads attribute "a" and
\* depends on its children's state; pass 2 reads the listeners and depends on
\* its parent's state and on pass 1.
MainPasses ==
    << Pass(1, {"a"}, FALSE, TRUE, {}),
       Pass(2, {"listeners"}, TRUE, FALSE, {1}) >>

NoMarks == [n \in NodeIds |-> {}]

\* The history of marks: emptied by a drain, extended by a call that marks.
RecordMarks ==
    marked' = IF last_call'.op = "update_state" THEN NoMarks
              ELSE IF last_call'.mask # {}
              THEN [marked EXCEPT ![last_call'.id] = @ \cup {last_call'.mask}]
              ELSE marked

\* RealDom::new on each pass list of PassLists.
InitSpecNew == (\E ps \in PassLists : InitArgs(ps)) /\ marked = NoMarks

NewNext == New /\ RecordMarks

SpecNew == InitSpecNew /\ [][NewNext]_vars

\* Node contents without listeners, and elements without listeners.
PlainTypes == {nt \in NodeTypes : nt.listeners = {}}
PlainElements == {nt \in PlainTypes : nt.kind = "Element"}

\* An attachment that makes no cycle: the parent is not in the child's subtree.
KeepsTree(id, child) == id \notin Subtree(tree, child)

\* The history of marks is kept in SpecMark alone.
NoHistory == UNCHANGED marked

Placeholder == [kind |-> "Placeholder", listeners |-> {}]

\* Spec: structural edits of nodes without listeners; no node is attached
\* to itself.
Init == InitNew(MainPasses) /\ marked = NoMarks

Next ==
    \/ \E nt \in PlainTypes : CreateNode(nt) /\ NoHistory
    \/ \E id \in NodeIds : \E child \in NodeIds \ {id} : AddChild(id, child) /\ NoHistory
    \/ \E id, old \in NodeIds : InsertAfter(id, old) /\ NoHistory
    \/ \E id, old \in NodeIds : InsertBefore(id, old) /\ NoHistory
    \/ \E id \in NodeIds : Remove(id) /\ NoHistory
    \/ \E id, new \in NodeIds : Replace(id, new) /\ NoHistory

Spec == Init /\ [][Next]_vars

\* SpecListen: listeners and content variants, on a dom with no passes; no
\* node is attached under its own subtree, the root is not removed.
ListenTypes == {nt \in NodeTypes : nt.kind # "Text"}
NonRoot == NodeIds \ {RootId}

InitListen == InitNew(<< >>) /\ marked = NoMarks

ListenNext ==
    \/ \E nt \in ListenTypes : CreateNode(nt) /\ NoHistory
    \/ \E id \in NodeIds, child \in NonRoot :
          KeepsTree(id, child) /\ AddChild(id, child) /\ NoHistory
    \/ \E id \in NonRoot : Remove(id) /\ NoHistory
    \/ \E id \in NodeIds, event \in Events : AddEventListener(id, event) /\ NoHistory
    \/ \E id \in NodeIds, event \in Events : RemoveEventListener(id, event) /\ NoHistory
    \/ \E id \in NodeIds, nt \in ListenTypes : SetType(id, nt) /\ NoHistory

SpecListen == InitListen /\ [][ListenNext]_vars

\* SpecDirty: structural marks, typed marks, one attribute and drains on a
\* tree of elements; no node is attached under its own subtree, the root is
\* not removed.
DirtyNext ==
    \/ \E nt \in PlainElements : CreateNode(nt) /\ NoHistory
    \/ \E id \in NodeIds, child \in NonRoot :
          KeepsTree(id, child) /\ AddChild(id, child) /\ NoHistory
    \/ \E id \in NonRoot : Remove(id) /\ NoHistory
    \/ \E id \in NodeIds : NodeGetMut(id, NodeTypeId) /\ NoHistory
    \/ \E id \in NodeIds : SetAttribute(id, "a") /\ NoHistory
    \/ UpdateState /\ NoHistory

SpecDirty == Init /\ [][DirtyNext]_vars

\* SpecMark: marks of two attribute masks and drains, with the history of
\* marks; the root is not removed.
MarkNext ==
    \/ \E nt \in PlainElements : CreateNode(nt) /\ RecordMarks
    \/ \E id \in NonRoot : Remove(id) /\ RecordMarks
    \/ \E id \in NodeIds, name \in AttrNames : SetAttribute(id, name) /\ RecordMarks
    \/ UpdateState /\ RecordMarks

\* RealDom::new marks every facet of the root (line 106).
InitMark == InitNew(MainPasses) /\ marked = [NoMarks EXCEPT ![RootId] = {MaskAll}]

SpecMark == InitMark /\ [][MarkNext]_vars

\* SpecQuery: listeners registered on elements, content replaced by a
\* Placeholder, removal, replacement of an attached node, and the listening
\* query; no node is attached under its own subtree, the root is not removed
\* or replaced.
QueryNext ==
    \/ \E nt \in PlainElements : CreateNode(nt) /\ NoHistory
    \/ \E id \in NodeIds, child \in NonRoot :
          KeepsTree(id, child) /\ AddChild(id, child) /\ NoHistory
    \/ \E id \in NonRoot : Remove(id) /\ NoHistory
    \/ \E id \in NonRoot, new \in NonRoot :
          /\ id \in tree.nodes /\ TreeParentId(tree, id) # None
          /\ new \in tree.nodes /\ TreeParentId(tree, new) = None
          /\ Replace(id, new) /\ NoHistory
    \/ \E id \in NonRoot, event \in Events : AddEventListener(id, event) /\ NoHistory
    \/ \E id \in NonRoot : SetType(id, Placeholder) /\ NoHistory
    \/ \E event \in Events : GetListeningSorted(event) /\ NoHistory

SpecQuery == InitListen /\ [][QueryNext]_vars

\* SpecClone: subtrees of elements with listeners built, their content
\* replaced, removed and cloned; no node is attached under its own subtree,
\* the root is not removed.
CloneNext ==
    \/ \E nt \in PlainElements : CreateNode(nt) /\ NoHistory
    \/ \E id \in NodeIds, child \in NonRoot :
          KeepsTree(id, child) /\ AddChild(id, child) /\ NoHistory
    \/ \E id \in NonRoot : Remove(id) /\ NoHistory
    \/ \E id \in NonRoot, event \in Events : AddEventListener(id, event) /\ NoHistory
    \/ \E id \in NonRoot : SetType(id, Placeholder) /\ NoHistory
    \/ \E id \in NodeIds : CloneNode(id) /\ NoHistory

SpecClone == InitListen /\ [][CloneNext]_vars

\* SpecListenMark: listeners added and removed on nodes of every variant,
\* with the passes of MainPasses, and drains.
ListenMarkNext ==
    \/ \E nt \in PlainTypes : CreateNode(nt) /\ NoHistory
    \/ \E id \in NodeIds, event \in Events : AddEventListener(id, event) /\ NoHistory
    \/ \E id \in NodeIds, event \in Events : RemoveEventListener(id, event) /\ NoHistory
    \/ UpdateState /\ NoHistory

SpecListenMark == Init /\ [][ListenMarkNext]_vars

\* SpecLookup: nodes created, attached and removed, and lookups of every
\* identity; no node is attached under its own subtree, the root is not
\* removed.
LookupNext ==
    \/ \E nt \in PlainElements : CreateNode(nt) /\ NoHistory
    \/ \E id \in NodeIds, child \in NonRoot :
          KeepsTree(id, child) /\ AddChild(id, child) /\ NoHistory
    \/ \E id \in NonRoot : Remove(id) /\ NoHistory
    \/ \E id \in NodeIds : Get(id) /\ NoHistory
    \/ \E id \in NodeIds : GetMut(id) /\ NoHistory

SpecLookup == Init /\ [][LookupNext]_vars

\* SpecWatch: watchers registered, and structural edits of elements whose
\* listeners are registered by add_event_listener and whose content may be
\* replaced by a Placeholder; no node is attached under its own subtree, the
\* root is not removed, replaced or moved.
WatchNext ==
    \/ AddNodeWatcher /\ NoHistory
    \/ \E nt \in PlainElements : CreateNode(nt) /\ NoHistory
    \/ \E id \in NodeIds, child \in NonRoot :
          KeepsTree(id, child) /\ AddChild(id, child) /\ NoHistory
    \/ \E id \in NonRoot, old \in NonRoot :
          KeepsTree(old, id) /\ InsertAfter(id, old) /\ NoHistory
    \/ \E id \in NonRoot, old \in NonRoot :
          KeepsTree(old, id) /\ InsertBefore(id, old) /\ NoHistory
    \/ \E id \in NonRoot : Remove(id) /\ NoHistory
    \/ \E id \in NonRoot, new \in NonRoot :
          /\ id \in tree.nodes /\ TreeParentId(tree, id) # None
          /\ new \in tree.nodes /\ TreeParentId(tree, new) = None
          /\ Replace(id, new) /\ NoHistory
    \/ \E id \in NonRoot, event \in Events : AddEventListener(id, event) /\ NoHistory
    \/ \E id \in NonRoot : SetType(id, Placeholder) /\ NoHistory

SpecWatch == Init /\ [][WatchNext]_vars

(***************************************************************************)
(* The four traversals (lines 217-272).  The callback edits nothing; a     *)
(* traversal is the list of the identities it hands to the callback, in    *)
(* order.  The loops have no visited set: a loop that has not emptied its  *)
(* work list after TraverseFuel iterations is reported as not ended.       *)
(***************************************************************************)
TraverseFuel == 2 * (MaxId + 1)

Reverse(q) == [i \in 1 .. Len(q) |-> q[Len(q) + 1 - i]]

\* tree.children_ids(id) as an Option: a list of at most one child list.
ChildrenIdsOpt(t, id) == IF TreeContains(t, id) THEN <<TreeChildrenIds(t, id)>> ELSE << >>

Traversed(order, ended) == [order |-> order, ended |-> ended]

\* traverse_depth_first (lines 217-227): pop from the end of the stack.
RECURSIVE DepthFirstLoop(_, _, _, _)
DepthFirstLoop(t, stack, order, fuel) ==
    IF stack = << >> THEN Traversed(order, TRUE)
    ELSE IF fuel = 0 THEN Traversed(order, FALSE)
    ELSE LET id == stack[Len(stack)]
             rest == SubSeq(stack, 1, Len(stack) - 1)
         IN  IF Lookup(t, id) # << >>
             THEN LET children == ChildrenIdsOpt(t, id)
                  IN  DepthFirstLoop(t,
                          IF children # << >> THEN rest \o Reverse(children[1]) ELSE rest,
                          Append(order, id), fuel - 1)
             ELSE DepthFirstLoop(t, rest, order, fuel - 1)

\* traverse_breadth_first (lines 229-242): pop from the front of the queue.
RECURSIVE BreadthFirstLoop(_, _, _, _)
BreadthFirstLoop(t, queue, order, fuel) ==
    IF queue = << >> THEN Traversed(order, TRUE)
    ELSE IF fuel = 0 THEN Traversed(order, FALSE)
    ELSE LET id == Head(queue)
             rest == Tail(queue)
         IN  IF Lookup(t, id) # << >>
             THEN LET children == ChildrenIdsOpt(t, id)
                  IN  BreadthFirstLoop(t,
                          IF children # << >> THEN rest \o children[1] ELSE rest,
                          Append(order, id), fuel - 1)
             ELSE BreadthFirstLoop(t, rest, order, fuel - 1)

\* traverse_depth_first_mut (lines 244-256): the child list is read before
\* the node is looked up.
RECURSIVE DepthFirstMutLoop(_, _, _, _)
DepthFirstMutLoop(t, stack, order, fuel) ==
    IF stack = << >> THEN Traversed(order, TRUE)
    ELSE IF fuel = 0 THEN Traversed(order, FALSE)
    ELSE LET id == stack[Len(stack)]
             rest == SubSeq(stack, 1, Len(stack) - 1)
             children == ChildrenIdsOpt(t, id)
         IN  IF children # << >> /\ Lookup(t, id) # << >>
             THEN DepthFirstMutLoop(t, rest \o Reverse(children[1]),
                                    Append(order, id), fuel - 1)
             ELSE DepthFirstMutLoop(t, rest, order, fuel - 1)

\* traverse_breadth_first_mut (lines 258-272)
RECURSIVE BreadthFirstMutLoop(_, _, _, _)
BreadthFirstMutLoop(t, queue, order, fuel) ==
    IF queue = << >> THEN Traversed(order, TRUE)
    ELSE IF fuel = 0 THEN Traversed(order, FALSE)
    ELSE LET id == Head(queue)
             rest == Tail(queue)
             children == ChildrenIdsOpt(t, id)
         IN  IF children # << >> /\ Lookup(t, id) # << >>
             THEN BreadthFirstMutLoop(t, rest \o children[1],
                                      Append(order, id), fuel - 1)
             ELSE BreadthFirstMutLoop(t, rest, order, fuel - 1)

traverse_depth_first(t) == DepthFirstLoop(t, <<RootId>>, << >>, TraverseFuel)
traverse_breadth_first(t) == BreadthFirstLoop(t, <<RootId>>, << >>, TraverseFuel)
traverse_depth_first_mut(t) == DepthFirstMutLoop(t, <<RootId>>, << >>, TraverseFuel)
traverse_breadth_first_mut(t) == BreadthFirstMutLoop(t, <<RootId>>, << >>, TraverseFuel)

\* A traversal call: nothing of the dom changes, the call's outcome is kept.
Traverse(op, res) ==
    /\ Ready
    /\ last_call' = CallResult(op, RootId, None, res)
    /\ UNCHANGED <<tree, node_data, nodes_listening, dirty_nodes, phase, node_watchers>>

TraverseDepthFirst == Traverse("traverse_depth_first", traverse_depth_first(tree))
TraverseBreadthFirst == Traverse("traverse_breadth_first", traverse_breadth_first(tree))
TraverseDepthFirstMut == Traverse("traverse_depth_first_mut", traverse_depth_first_mut(tree))
TraverseBreadthFirstMut ==
    Traverse("traverse_breadth_first_mut", traverse_breadth_first_mut(tree))

\* SpecTraverse: structural edits and the four traversals, no pass registered.
TraverseNext ==
    \/ \E nt \in PlainElements : CreateNode(nt) /\ NoHistory
    \/ \E id \in NodeIds : \E child \in NodeIds \ {id} : AddChild(id, child) /\ NoHistory
    \/ \E id \in NonRoot, old \in NonRoot : InsertBefore(id, old) /\ NoHistory
    \/ \E id \in NonRoot : Remove(id) /\ NoHistory
    \/ TraverseDepthFirst /\ NoHistory
    \/ TraverseBreadthFirst /\ NoHistory
    \/ TraverseDepthFirstMut /\ NoHistory
    \/ TraverseBreadthFirstMut /\ NoHistory

SpecTraverse == InitListen /\ [][TraverseNext]_vars

\* SpecReplace: listeners registered through add_event_listener alone, nodes
\* attached, removed and replaced; no pass registered.
ReplaceNext ==
    \/ \E nt \in PlainElements : CreateNode(nt) /\ NoHistory
    \/ \E id \in NodeIds, child \in NonRoot :
          KeepsTree(id, child) /\ AddChild(id, child) /\ NoHistory
    \/ \E id \in NonRoot : Remove(id) /\ NoHistory
    \/ \E id \in NonRoot, new \in NonRoot :
          /\ id \in tree.nodes /\ TreeParentId(tree, id) # None
          /\ new \in tree.nodes /\ TreeParentId(tree, new) = None
          /\ Replace(id, new) /\ NoHistory
    \/ \E id \in NodeIds, event \in Events : AddEventListener(id, event) /\ NoHistory

SpecReplace == InitListen /\ [][ReplaceNext]_vars

\* SpecTyped: the typed-state accessors of a node handle next to creates,
\* removals, an attribute edit and drains.
TypedNext ==
    \/ \E nt \in PlainElements : CreateNode(nt) /\ NoHistory
    \/ \E id \in NonRoot : Remove(id) /\ NoHistory
    \/ \E id \in NodeIds, ty \in TypeIds : NodeGetMut(id, ty) /\ NoHistory
    \/ \E id \in NodeIds, ty \in TypeIds : NodeInsert(id, ty) /\ NoHistory
    \/ \E id \in NodeIds : SetAttribute(id, "a") /\ NoHistory
    \/ UpdateState /\ NoHistory

SpecTyped == Init /\ [][TypedNext]_vars

\* SpecContent: content edits of elements and drains; pass 1 reads the tag
\* and attribute "b", pass 2 reads attribute "a", no pass reads the namespace.
ContentPasses ==
    << Pass(1, MaskTag \cup MaskAttr("b"), FALSE, FALSE, {}),
       Pass(2, MaskAttr("a"), FALSE, FALSE, {}) >>

InitContent == InitNew(ContentPasses) /\ marked = NoMarks

ContentNext ==
    \/ \E nt \in PlainElements : CreateNode(nt) /\ NoHistory
    \/ \E id \in NodeIds : TagMut(id) /\ NoHistory
    \/ \E id \in NodeIds : NamespaceMut(id) /\ NoHistory
    \/ \E id \in NodeIds : SetAttribute(id, "a") /\ NoHistory
    \/ \E id \in NodeIds : RemoveAttributes(id, "a") /\ NoHistory
    \/ UpdateState /\ NoHistory

SpecContent == InitContent /\ [][ContentNext]_vars

(***************************************************************************)
(* Properties.                                                             *)
(***************************************************************************)
pu == dirty_nodes.passes_updated
nu == dirty_nodes.nodes_updated
passes == dirty_nodes.passes

Indexed(e) == IF e \in DOMAIN nodes_listening THEN nodes_listening[e] ELSE {}

\* C1: after every edit call, a node of the tree is in the listener index
\* entry of an event exactly when the event is in the node's own listener set.
C1_ListenerIndexConsistent ==
    \A e \in Events : \A n \in tree.nodes :
        n \in Indexed(e) <=> e \in node_data[n].listeners

\* C2: after remove() on a node, the listener index holds neither the node nor
\* any of its descendants, for any event.
C2_RemovePurgesSubtree ==
    (phase = "ready" /\ last_call.op = "remove") =>
        \A e \in Events : Indexed(e) \cap last_call.gone = {}

\* The nodes from which a node is reached by following child lists.
InChildList(p, n) == \E i \in 1 .. Len(tree.children[p]) : tree.children[p][i] = n

Occurrences(p, n) == Cardinality({i \in 1 .. Len(tree.children[p]) : tree.children[p][i] = n})

\* C3: after any sequence of structural edits the structure is a tree: no node
\* is its own descendant, and a node is in the child list of exactly the node
\* that is its parent, once.
C3_StructureIsTree ==
    \A n \in tree.nodes :
        /\ n \notin Reach(tree, SeqToSet(tree.children[n]), {})
        /\ \A p \in tree.nodes :
              /\ InChildList(p, n) <=> tree.parent[n] = p
              /\ Occurrences(p, n) <= 1

\* C4: in every reachable state the root is in the tree and is an Element.
C4_RootIsElement ==
    RootId \in tree.nodes /\ node_data[RootId].kind = "Element"

\* C5: after construction, for distinct passes A and B, A is a dependant of B
\* exactly when B is among A's declared dependencies; dependants are
\* registered passes and no pass is its own dependant.
C5_DependantsInverse ==
    phase = "ready" =>
        \A a, b \in 1 .. Len(passes) :
            /\ a # b =>
                 (passes[a].this_type_id \in passes[b].dependants
                    <=> passes[b].this_type_id \in passes[a].combined_dependancy_type_ids)
            /\ passes[a].this_type_id \notin passes[a].dependants
            /\ passes[a].dependants \subseteq PassIds(passes)

\* The entries update_state is to hand over: one per pending pass of every
\* pending node that is in the tree, with the number of the node's ancestors.
Ancestors(n) == {a \in NodeIds : a # n /\ n \in Subtree(tree, a)}

ExpectedDirty ==
    {e \in (PassIds(passes) \cup {NodeTypeId}) \X NodeIds \X (0 .. MaxId) :
        /\ e[2] \in DOMAIN pu /\ e[1] \in pu[e[2]]
        /\ e[2] \in tree.nodes
        /\ e[3] = Cardinality(Ancestors(e[2]))}

\* C6: update_state empties both pending mappings and hands over exactly one
\* entry (pass, node, height) per pending pair whose node is in the tree, with
\* the node's height at the time of the call, and none for an absent node.
C6_ExactlyOnceDrain ==
    [][last_call'.op = "update_state" =>
          /\ dirty_nodes'.passes_updated = EmptyMap
          /\ dirty_nodes'.nodes_updated = EmptyMap
          /\ last_call'.dirty = ExpectedDirty]_vars

\* A drain that dropped the pending state of an absent node and handed over a
\* node at height 1.
C6_Witness ==
    /\ last_call.op = "update_state"
    /\ \E n \in DOMAIN last_call.masks : n \notin tree.nodes
    /\ \E e \in last_call.dirty : e[3] = 1

\* C7: an update_state that directly follows an update_state hands over an
\* empty dirty set and returns an empty touched set and an empty mask mapping.
C7_SecondDrainEmpty ==
    (last_call.op = "update_state" /\ last_call.after_drain) =>
        /\ last_call.dirty = {}
        /\ last_call.touched = {}
        /\ last_call.masks = EmptyMap

\* Two drains in a row on a tree of several nodes.
C7_Witness ==
    /\ last_call.op = "update_state" /\ last_call.after_drain
    /\ Cardinality(tree.nodes) >= 2

\* The masks the edit calls mark.
EditMasks == {MaskTag, MaskNamespace, MaskText, MaskListeners, MaskAll}
                \cup {MaskAttr(name) : name \in AttrNames}

MarkTwice(n, m1, m2) == mark_dirty(mark_dirty(dirty_nodes, n, m1), n, m2)

MaskOf(d, n) == IF n \in DOMAIN d.nodes_updated THEN d.nodes_updated[n] ELSE {}

OrderIndependent ==
    \A n \in NodeIds : \A m1, m2 \in EditMasks :
        /\ MarkTwice(n, m1, m2) = MarkTwice(n, m2, m1)
        /\ MaskOf(MarkTwice(n, m1, m2), n) = MaskOf(dirty_nodes, n) \cup m1 \cup m2

UnionOfMarks ==
    \A n \in NodeIds :
        IF marked[n] = {} THEN n \notin DOMAIN nu
        ELSE n \in DOMAIN nu /\ nu[n] = UNION marked[n]

NothingLost ==
    last_call'.op # "update_state" =>
        /\ \A n \in DOMAIN pu : n \in DOMAIN dirty_nodes'.passes_updated
                                  /\ pu[n] \subseteq dirty_nodes'.passes_updated[n]
        /\ \A n \in DOMAIN nu : n \in DOMAIN dirty_nodes'.nodes_updated
                                  /\ nu[n] \subseteq dirty_nodes'.nodes_updated[n]

\* C8: marking a node with two masks gives the same pending mask and pending
\* pass set in either order; the pending mask is the union of the masks marked
\* since the last drain; between drains no pending mask or pass set loses an
\* element.
C8_MarkOrderIndependent ==
    /\ [](OrderIndependent /\ UnionOfMarks)
    /\ [][NothingLost]_vars

\* A node other than the root marked with two different masks since the drain.
C8_Witness ==
    /\ last_call.op = "set_attribute"
    /\ \E n \in NonRoot : Cardinality(marked[n]) >= 2 /\ nu[n] = UNION marked[n]

C10_AttachThenAttribute ==
    [][/\ last_call'.op = "add_child" =>
            /\ ChildDependant(passes) \subseteq dirty_nodes'.passes_updated[last_call'.id]
            /\ ParentDependant(passes) \subseteq dirty_nodes'.passes_updated[last_call'.arg]
       /\ last_call'.op = "set_attribute" =>
            /\ PassesOverlapping(passes, MaskAttr(last_call'.arg))
                  \subseteq dirty_nodes'.passes_updated[last_call'.id]
            /\ \A n \in DOMAIN pu : n \in DOMAIN dirty_nodes'.passes_updated
                                      /\ pu[n] \subseteq dirty_nodes'.passes_updated[n]
      ]_vars

\* After a drain: E attached under the root, then an attribute set on E; the
\* root is pending for the child-dependant pass alone and E for the
\* parent-dependant pass and the pass reading the attribute.
C10_Witness ==
    /\ last_call.op = "set_attribute"
    /\ LET e == last_call.id
       IN  /\ tree.parent[e] = RootId
           /\ RootId \in DOMAIN pu /\ pu[RootId] = ChildDependant(passes)
           /\ e \in DOMAIN pu
           /\ pu[e] = ParentDependant(passes) \cup PassesOverlapping(passes, MaskAttr(last_call.arg))
           /\ ParentDependant(passes) # PassesOverlapping(passes, MaskAttr(last_call.arg))

\* C11: a call of get_listening_sorted returns, and returns each node of the
\* event's index entry exactly once, every node at a height greater than or
\* equal to that of the node after it; for an event with no index entry it
\* returns the empty list.
C11_ListeningSorted ==
    last_call.op = "get_listening_sorted" =>
        /\ phase = "ready"
        /\ LET q == last_call.result
               e == last_call.arg
           IN  /\ e \notin DOMAIN nodes_listening => q = << >>
               /\ SeqToSet(q) = Indexed(e)
               /\ Len(q) = Cardinality(Indexed(e))
               /\ \A i \in 1 .. Len(q) - 1 :
                     TreeHeight(tree, q[i]) >= TreeHeight(tree, q[i + 1])

IndexedIn(nl, e) == IF e \in DOMAIN nl THEN nl[e] ELSE {}

\* C12: clone_node(N) makes one new node for N and for each descendant of N,
\* with an identity that was not in the tree, the content of the original and
\* the children of the original's clone in the original's order; no new
\* identity is in the listener index afterwards, and the original subtree
\* keeps its content and shape.
C12_CloneIsomorphic ==
    [][last_call'.op = "clone_node" =>
          LET n == last_call'.id
              map == last_call'.result
              orig == Subtree(tree, n)
          IN  /\ DOMAIN map = orig
              /\ \A a, b \in orig : a # b => map[a] # map[b]
              /\ \A a \in orig :
                    /\ map[a] \notin tree.nodes /\ map[a] \in tree'.nodes
                    /\ node_data'[map[a]] = node_data[a]
                    /\ tree'.children[map[a]] =
                          [i \in 1 .. Len(tree.children[a]) |-> map[tree.children[a][i]]]
                    /\ a # n => tree'.parent[map[a]] = map[tree.parent[a]]
                    /\ \A e \in Events : map[a] \notin IndexedIn(nodes_listening', e)
                    /\ node_data'[a] = node_data[a]
                    /\ tree'.children[a] = tree.children[a]
                    /\ tree'.parent[a] = tree.parent[a]]_vars

StructuralOps == {"add_child", "insert_before", "insert_after", "replace", "remove"}

\* C13: when add_child, insert_before, insert_after, replace or remove changes
\* the child list of a node that stays in the tree, every child-dependant
\* pass is pending for that node after the call.
C13_ChildListChangeMarked ==
    [][(last_call'.op \in StructuralOps /\ phase' = "ready") =>
          \A x \in tree.nodes \cap tree'.nodes :
              tree'.children[x] # tree.children[x] =>
                  /\ x \in DOMAIN dirty_nodes'.passes_updated
                  /\ ChildDependant(passes) \subseteq dirty_nodes'.passes_updated[x]]_vars

PendingPasses(d, n) == IF n \in DOMAIN d.passes_updated THEN d.passes_updated[n] ELSE {}

\* What a call that marks mask m on node n, and nothing else, leaves pending.
MarksOnly(n, m) ==
    /\ MaskOf(dirty_nodes', n) = MaskOf(dirty_nodes, n) \cup m
    /\ PendingPasses(dirty_nodes', n) =
          PendingPasses(dirty_nodes, n) \cup PassesOverlapping(passes, m)
    /\ \A x \in NodeIds \ {n} :
          /\ MaskOf(dirty_nodes', x) = MaskOf(dirty_nodes, x)
          /\ PendingPasses(dirty_nodes', x) = PendingPasses(dirty_nodes, x)

\* C14: add_event_listener(N, e) on an Element or Text returns with e in N's
\* listener set and N in the index entry of e; remove_event_listener(N, e)
\* returns with e out of the set and N out of the entry; each marks the
\* listeners facet on N and nothing else; on a Placeholder both change
\* nothing.
C14_ListenerToggle ==
    [][last_call'.op \in {"add_event_listener", "remove_event_listener"} =>
          LET n == last_call'.id
              e == last_call'.arg
          IN  /\ phase' = "ready"
              /\ UNCHANGED tree
              /\ IF HasListeners(node_data[n])
                 THEN /\ MarksOnly(n, MaskListeners)
                      /\ last_call'.op = "add_event_listener" =>
                            /\ node_data'[n].listeners = node_data[n].listeners \cup {e}
                            /\ n \in IndexedIn(nodes_listening', e)
                      /\ last_call'.op = "remove_event_listener" =>
                            /\ node_data'[n].listeners = node_data[n].listeners \ {e}
                            /\ n \notin IndexedIn(nodes_listening', e)
                 ELSE UNCHANGED <<node_data, nodes_listening, dirty_nodes>>]_vars

\* C15: get(id) and get_mut(id) return a handle for an identity in the tree
\* and absence for any other identity; a lookup that reports absence changes
\* neither the tree, the pending state nor the listener index.
C15_LookupReportsAbsence ==
    [][last_call'.op \in {"get", "get_mut_handle"} =>
          LET id == last_call'.id
          IN  /\ id \in tree.nodes => last_call'.result = <<id>>
              /\ id \notin tree.nodes => last_call'.result = << >>
              /\ last_call'.result = << >> =>
                    UNCHANGED <<tree, node_data, dirty_nodes, nodes_listening>>]_vars

\* get_mut reported absence for an identity that was created and removed (its
\* pending entry is still there), while another node is in the tree.
C15_Witness ==
    /\ last_call.op = "get_mut_handle"
    /\ last_call.result = << >>
    /\ last_call.id \in DOMAIN pu
    /\ Cardinality(tree.nodes) >= 2

\* C16: update_state returns the pending mask mapping as it was right before
\* the call, which holds for each node the union of the masks marked on it
\* since the previous drain, and leaves the pending mask mapping empty.
C16_ReturnsPreDrainMasks ==
    [][last_call'.op = "update_state" =>
          /\ last_call'.masks = dirty_nodes.nodes_updated
          /\ dirty_nodes'.nodes_updated = EmptyMap
          /\ \A n \in NodeIds :
                IF marked[n] = {} THEN n \notin DOMAIN last_call'.masks
                ELSE /\ n \in DOMAIN last_call'.masks
                     /\ last_call'.masks[n] = UNION marked[n]]_vars

\* A drain that returned, for a node other than the root, the union of two
\* attribute masks marked by two calls.
C16_Witness ==
    /\ last_call.op = "update_state"
    /\ dirty_nodes.nodes_updated = EmptyMap
    /\ \E n \in NonRoot : n \in DOMAIN last_call.masks
                          /\ last_call.masks[n] = MaskAttr("a") \cup MaskAttr("b")

\* The places of the log where watcher w is told kind of node m.
Told(notes, kind, m, w) ==
    {i \in 1 .. Len(notes) :
        notes[i].kind = kind /\ notes[i].node = m /\ notes[i].watcher = w}

\* The place of the log where node m leaves storage.
DetachedAt(notes, m) ==
    {i \in 1 .. Len(notes) : notes[i].kind = "detached" /\ notes[i].node = m}

\* C17: during a remove(N) that returns, every watcher is told "removed"
\* exactly once of N and of every descendant of N, at a point where the node
\* is in no entry of the listener index and is still in the tree; every
\* descendant of a node leaves storage before the node does.
C17_RemovalOrdering ==
    [][(last_call'.op = "remove" /\ phase' = "ready") =>
          LET notes == last_call'.notes
              gone == Subtree(tree, last_call'.id)
          IN  \A m \in gone :
                /\ \A i \in 1 .. Len(node_watchers) :
                      /\ Cardinality(Told(notes, "removed", m, node_watchers[i])) = 1
                      /\ \A k \in Told(notes, "removed", m, node_watchers[i]) :
                            notes[k].present /\ ~notes[k].indexed
                /\ Cardinality(DetachedAt(notes, m)) = 1
                /\ \A d \in Subtree(tree, m) \ {m} :
                      \A i \in DetachedAt(notes, d), j \in DetachedAt(notes, m) : i < j]_vars

ContentOps == {"tag_mut", "namespace_mut", "set_attribute", "remove_attributes"}

\* The one facet a content edit is about.
FacetOf(op, arg) ==
    IF op = "tag_mut" THEN MaskTag
    ELSE IF op = "namespace_mut" THEN MaskNamespace
    ELSE MaskAttr(arg)

\* C18: tag_mut, namespace_mut, set_attribute(name) and remove_attributes(name)
\* on element N join the one facet to N's pending mask and the passes whose
\* interest overlaps it to N's pending pass set, and change neither the
\* pending state of another node, the tree, the content kinds nor the
\* listener index.
C18_ContentEditFrame ==
    [][last_call'.op \in ContentOps =>
          /\ MarksOnly(last_call'.id, FacetOf(last_call'.op, last_call'.arg))
          /\ UNCHANGED <<tree, node_data, nodes_listening>>]_vars

\* After a drain: an attribute of one node was set, then the tag of another
\* node taken; that node is pending for pass 1 alone with the tag facet alone.
C18_Witness ==
    /\ last_call.op = "tag_mut"
    /\ LET n == last_call.id
       IN  /\ n \in DOMAIN pu /\ pu[n] = {1}
           /\ n \in DOMAIN nu /\ nu[n] = MaskTag
           /\ \E x \in NodeIds \ {n} :
                 x \in DOMAIN nu /\ nu[x] = MaskAttr("a") /\ pu[x] = {2}

TraverseOps == {"traverse_depth_first", "traverse_breadth_first",
                "traverse_depth_first_mut", "traverse_breadth_first_mut"}

\* The position of the first callback for node n in a visit order, 0 if none.
FirstVisit(order, n) ==
    IF \E i \in 1 .. Len(order) : order[i] = n
    THEN CHOOSE i \in 1 .. Len(order) :
            order[i] = n /\ \A j \in 1 .. (i - 1) : order[j] # n
    ELSE 0

Visits(order, n) == Cardinality({i \in 1 .. Len(order) : order[i] = n})

\* C19: each of the four traversals ends, calls the callback exactly once for
\* every node reachable from the root through child lists and for no other
\* node, calls it for a non-root node only after the call for its parent, and
\* the mutable variants visit in the order of the immutable ones.
C19_TraversalVisitsOnce ==
    last_call.op \in TraverseOps =>
        LET r == last_call.result
            reach == IF TreeContains(tree, RootId) THEN Subtree(tree, RootId) ELSE {}
        IN  /\ r.ended
            /\ \A n \in NodeIds : Visits(r.order, n) = (IF n \in reach THEN 1 ELSE 0)
            /\ \A n \in reach \ {RootId} :
                  /\ FirstVisit(r.order, tree.parent[n]) > 0
                  /\ FirstVisit(r.order, tree.parent[n]) < FirstVisit(r.order, n)
            /\ traverse_depth_first_mut(tree) = traverse_depth_first(tree)
            /\ traverse_breadth_first_mut(tree) = traverse_breadth_first(tree)

\* The notes of a call are one note of the kind for the node per registered
\* watcher, in the order of registration, and nothing else.
OncePerWatcher(notes, kind, n) ==
    /\ Len(notes) = Len(node_watchers)
    /\ \A i \in 1 .. Len(notes) :
          /\ notes[i].kind = kind
          /\ notes[i].node = n
          /\ notes[i].watcher = node_watchers[i]

\* C20: before a structural edit returns, every registered watcher has been
\* told exactly once, in registration order: create_node tells "added" for
\* the new node once it is stored and pending for every pass, add_child tells
\* "moved" for the child, insert_before and insert_after tell "moved" for the
\* inserted node, replace tells "removed" for the old node while it still is
\* in its place.
C20_WatchersNotified ==
    [][phase' = "ready" =>
          LET call == last_call'
          IN  /\ call.op = "create_node" =>
                    /\ OncePerWatcher(call.notes, "added", call.id)
                    /\ \A i \in 1 .. Len(call.notes) :
                          /\ call.notes[i].present /\ call.notes[i].stored
                          /\ PassIds(passes) \subseteq call.notes[i].pending
              /\ call.op = "add_child" => OncePerWatcher(call.notes, "moved", call.arg)
              /\ call.op \in {"insert_before", "insert_after"} =>
                    OncePerWatcher(call.notes, "moved", call.id)
              /\ call.op = "replace" =>
                    /\ OncePerWatcher(call.notes, "removed", call.id)
                    /\ \A i \in 1 .. Len(call.notes) :
                          /\ call.notes[i].present
                          /\ call.notes[i].parent = TreeParentId(tree, call.id)]_vars

\* Two watchers are registered and an attached node has just been replaced:
\* both were told while the node still had its parent.
C20_Witness ==
    /\ last_call.op = "replace"
    /\ Len(node_watchers) = 2
    /\ Len(last_call.notes) = 2
    /\ last_call.notes[1].watcher # last_call.notes[2].watcher
    /\ last_call.notes[2].parent # None
    /\ ~TreeContains(tree, last_call.id)

\* C21: every identity held in an entry of the listener index is in the tree,
\* so that the height of every indexed node can be looked up; also after
\* replace(old, new) on a node old with registered listeners.
C21_IndexedNodesInTree ==
    \A e \in DOMAIN nodes_listening : nodes_listening[e] \subseteq tree.nodes

\* C22: remove_event_listener(N, e) and remove(N) on an existing node complete
\* without failure whatever the history, also when e has no index entry or
\* N's listener set was not built by add_event_listener, and leave N out of
\* the index entry of e, respectively out of every index entry.
C22_ListenerRemovalCompletes ==
    /\ last_call.op = "remove_event_listener" =>
          /\ phase = "ready"
          /\ last_call.id \notin Indexed(last_call.arg)
    /\ last_call.op = "remove" =>
          /\ phase = "ready"
          /\ \A e \in Events : last_call.id \notin Indexed(e)

\* C23: every pass identity in the pending pass set of a node is the identity
\* of a registered pass, and update_state hands only registered passes to the
\* resolution; also after the typed-state accessors get_mut<T> and insert<T>.
C23_PendingPassesRegistered ==
    /\ \A n \in DOMAIN pu : pu[n] \subseteq PassIds(passes)
    /\ last_call.op = "update_state" =>
          \A entry \in last_call.dirty : entry[1] \in PassIds(passes)

=============================================================================
